---- MODULE Spec2Model ----
(***************************************************************************)
(* A model of the execution core of cairo-vm-ts: the write-once Memory     *)
(* (src/src/memory/memory.ts), the field element Felt                      *)
(* (src/src/primitives/felt.ts) and the instruction decoder                *)
(* (src/src/vm/instruction.ts).                                            *)
(*                                                                         *)
(* Five specifications share the variables; each one moves its own part    *)
(* of the state and leaves the rest at its initial value:                  *)
(*   Spec        the Memory object and the Relocatable objects its callers *)
(*               build and pass to it                                      *)
(*   SpecFelt    the Felt objects that exist                               *)
(*   SpecDecode  Instruction.decodeInstruction applied to an encoded word  *)
(*   SpecStep    VirtualMachine.step on a loaded memory                    *)
(*   SpecVM      VirtualMachine.computeOperands and opcodeAssertion        *)
(*               (src/unnamed/part_000)                                    *)
(***************************************************************************)
EXTENDS Integers, Sequences, FiniteSets

VARIABLES
    relocs,             \* the Relocatable objects built so far; an object's identity is its index
    data,               \* Memory.data : Map<Relocatable, MaybeRelocatable>, keyed by object
    numSegments,        \* Memory.numSegments
    lastOp,             \* the last Memory call, its arguments and what it returned
    felts,              \* the inner values of the Felt objects that exist
    feltOp,             \* the last Felt call, its arguments and what it returned
    encodedInstruction, \* the argument of decodeInstruction, as four 16-bit limbs
    decoded,            \* what decodeInstruction returned for it
    memory,             \* VirtualMachine.segments.memory: the filled cells, <<segment, offset>> -> object
    vmNumSegments,      \* the number of segments of VirtualMachine.segments
    runContext,         \* VirtualMachine.runContext: the objects pc, ap and fp
    vmCall              \* the last VirtualMachine call, its arguments and what it returned

vars == <<relocs, data, numSegments, lastOp, felts, feltOp,
          encodedInstruction, decoded, memory, vmNumSegments, runContext, vmCall>>

vmVars == <<memory, vmNumSegments, runContext, vmCall>>

(***************************************************************************)
(* Bounds of the model.                                                    *)
(***************************************************************************)
\* how many Relocatable objects the callers build
MaxRelocs == 2
\* the largest offset a caller puts in a Relocatable
MaxOffset == 0
\* the segments allocated at most; a caller's segment indexes go up to it, so
\* that the largest one is never allocated
MaxSegments == 1
\* the largest inner value of a Felt stored in memory
MaxWordInner == 1

(***************************************************************************)
(* Words: MaybeRelocatable = Felt | Relocatable.                           *)
(***************************************************************************)
FeltWord(n) == [kind |-> "Felt", inner |-> n]

RelocatableWord(s, o) == [kind |-> "Relocatable", segmentIndex |-> s, offset |-> o]

\* JavaScript's undefined: what Map.get returns for a key the map does not hold
undefined == [kind |-> "undefined"]

\* the value carried by the Ok(true) of a successful insert
true == [kind |-> "true"]

Words == {FeltWord(n) : n \in 0..MaxWordInner} \cup {RelocatableWord(0, 0)}

\* The objects a caller can hand to Memory as an address
Addresses == 1..Len(relocs)

(***************************************************************************)
(* Map<Relocatable, MaybeRelocatable>: the key is the object, not its      *)
(* (segmentIndex, offset) contents.                                        *)
(***************************************************************************)
MapGet(map, key) == IF key \in DOMAIN map THEN map[key] ELSE undefined

MapSet(map, key, value) ==
    [k \in DOMAIN map \cup {key} |-> IF k = key THEN value ELSE map[k]]

(***************************************************************************)
(* Result: Ok(value) | Err(error)                                          *)
(***************************************************************************)
Ok(value) == [isErr |-> FALSE, value |-> value, error |-> "none"]

Err(error) == [isErr |-> TRUE, value |-> undefined, error |-> error]

\* insert as it would be if a write of the value the cell already holds were let through
insertEqualAllowed(address, value) ==
    IF relocs[address].segmentIndex >= numSegments
    THEN [result |-> Err("SegmentError"), data |-> data]
    ELSE IF MapGet(data, address) # undefined /\ MapGet(data, address) # value
    THEN [result |-> Err("WriteOnceError"), data |-> data]
    ELSE [result |-> Ok(true), data |-> MapSet(data, address, value)]

\* insert as it would be without the check of the segment index
insertNoSegmentCheck(address, value) ==
    IF MapGet(data, address) # undefined
    THEN [result |-> Err("WriteOnceError"), data |-> data]
    ELSE [result |-> Ok(true), data |-> MapSet(data, address, value)]

(***************************************************************************)
(* Memory.insert: the result it returns and the map it leaves.             *)
(***************************************************************************)
insert(address, value) ==
    IF relocs[address].segmentIndex >= numSegments
    THEN [result |-> Err("SegmentError"), data |-> data]
    ELSE IF MapGet(data, address) # undefined
    THEN [result |-> Err("WriteOnceError"), data |-> data]
    ELSE [result |-> Ok(true), data |-> MapSet(data, address, value)]

\* Memory.get
get(address) ==
    LET value == MapGet(data, address)
    IN  IF value = undefined THEN Err("UnknownAddressError") ELSE Ok(value)

(***************************************************************************)
(* Felt                                                                    *)
(***************************************************************************)
\* Felt.PRIME.  The code's prime is 2^251 + 17 * 2^192 + 1; the constructor, add
\* and sub only compare with it, add it and reduce by it, so the model runs them
\* over a small modulus.
PRIME == 5

\* how far outside [0, PRIME] the integers handed to the constructor go
MaxOutside == 2

\* new Felt(_inner): throws FeltError, or builds the object holding _inner
Felt(_inner) ==
    IF _inner < 0 \/ _inner > PRIME
    THEN [threw |-> TRUE, inner |-> 0]
    ELSE [threw |-> FALSE, inner |-> _inner]

\* Felt.add, on the inner values of this and other
add(this, other) == Felt((this + other) % PRIME)

\* Felt.sub
sub(this, other) ==
    LET result == this - other
    IN  Felt(IF result < 0 THEN result + PRIME ELSE result)

\* Felt.eq
eq(this, other) == this = other

NoFeltOp == [op |-> "none", this |-> 0, other |-> 0, result |-> Felt(0)]

InitFeltPart ==
    /\ felts = {}
    /\ feltOp = NoFeltOp

(***************************************************************************)
(* Instruction                                                             *)
(***************************************************************************)
RegisterFlag == [AP |-> 0, FP |-> 1]

Op1Src == [Op0 |-> 0, Imm |-> 1, FP |-> 2, AP |-> 4]

ResLogic == [Op1 |-> 0, Add |-> 1, Mul |-> 2, Unconstrained |-> 3]

PcUpdate == [Regular |-> 0, Jump |-> 1, JumpRel |-> 2, Jnz |-> 4]

ApUpdate == [Regular |-> 0, Add |-> 1, Add1 |-> 2, Add2 |-> 3]

FpUpdate == [Regular |-> 0, ApPlus2 |-> 1, Dst |-> 2]

Opcode == [NoOp |-> 0, Call |-> 1, Ret |-> 2, AssertEq |-> 4]

\* new Instruction(...)
Instruction(offsetDst, offsetOp0, offsetOp1, desReg, op0Reg, op1Src, resLogic, pcUpdate, apUpdate, fpUpdate, opcode) ==
    [offDst |-> offsetDst, offOp0 |-> offsetOp0, offOp1 |-> offsetOp1,
     dstReg |-> desReg, op0Reg |-> op0Reg, op1Src |-> op1Src,
     resLogic |-> resLogic, pcUpdate |-> pcUpdate, apUpdate |-> apUpdate,
     fpUpdate |-> fpUpdate, opcode |-> opcode]

\* A Uint64 is held as its four 16-bit limbs, least significant first:
\* <<l0, l1, l2, l3>> is l0 + l1 * 2^16 + l2 * 2^32 + l3 * 2^48.

\* x & y on one limb
RECURSIVE BitAnd(_, _)
BitAnd(x, y) ==
    IF x = 0 \/ y = 0 THEN 0
    ELSE (x % 2) * (y % 2) + 2 * BitAnd(x \div 2, y \div 2)

\* x >> n on one limb
ShiftRight(x, n) == x \div (2 ^ n)

\* encodedInstruction & mask, mask = 0xffff: the lowest limb
mask(word) == word[1]

\* encodedInstruction >> shift, shift = 16: drop the lowest limb
shift(word) == Tail(word) \o <<0>>

\* (highBit & encodedInstruction) !== 0n, highBit = 1n << 63n: bit 15 of the top limb
highBit(word) == BitAnd(word[4], 32768) # 0

\* SignedInteger16.fromBiased: the signed offset a biased 16-bit value stands for
fromBiased(biased) == [value |-> biased - 32768, error |-> "undefined"]

dstRegMask == 1
dstRegOff == 0
op0RegMask == 2
op0RegOff == 1
op1SrcMask == 28
op1SrcOff == 2
resLogicMask == 96
resLogicOff == 5
pcUpdateMask == 896
pcUpdateOff == 7
apUpdateMask == 3072
apUpdateOff == 10
opcodeMask == 28672
opcodeOff == 12

\* a decoder's early return with an error
DecodeError(error) == [value |-> undefined, error |-> error]

\* the switch on op1SrcNum; "default" is the default branch
decodeOp1Src(op1SrcNum) ==
    CASE op1SrcNum = 0 -> Op1Src.Op0
      [] op1SrcNum = 1 -> Op1Src.Imm
      [] op1SrcNum = 2 -> Op1Src.FP
      [] op1SrcNum = 4 -> Op1Src.AP
      [] OTHER -> -1

\* the switch on pcUpdateNum
decodePcUpdate(pcUpdateNum) ==
    CASE pcUpdateNum = 0 -> PcUpdate.Regular
      [] pcUpdateNum = 1 -> PcUpdate.Jump
      [] pcUpdateNum = 2 -> PcUpdate.JumpRel
      [] pcUpdateNum = 4 -> PcUpdate.Jnz
      [] OTHER -> -1

\* the switch on resLogicNum as it would be if 0 always meant Op1
decodeResLogicAlwaysOp1(resLogicNum, pcUpdate) ==
    CASE resLogicNum = 0 -> ResLogic.Op1
      [] resLogicNum = 1 -> ResLogic.Add
      [] resLogicNum = 2 -> ResLogic.Mul
      [] OTHER -> -1

\* the switch on resLogicNum
decodeResLogic(resLogicNum, pcUpdate) ==
    CASE resLogicNum = 0 ->
            IF pcUpdate = PcUpdate.Jnz THEN ResLogic.Unconstrained ELSE ResLogic.Op1
      [] resLogicNum = 1 -> ResLogic.Add
      [] resLogicNum = 2 -> ResLogic.Mul
      [] OTHER -> -1

\* the switch on opcodeNum as it would be with the branch of 4 copied from that of 2
decodeOpcodeFourIsRet(opcodeNum) ==
    CASE opcodeNum = 0 -> Opcode.NoOp
      [] opcodeNum = 1 -> Opcode.Call
      [] opcodeNum = 2 -> Opcode.Ret
      [] opcodeNum = 4 -> Opcode.Ret
      [] OTHER -> -1

\* the switch on opcodeNum
decodeOpcode(opcodeNum) ==
    CASE opcodeNum = 0 -> Opcode.NoOp
      [] opcodeNum = 1 -> Opcode.Call
      [] opcodeNum = 2 -> Opcode.Ret
      [] opcodeNum = 4 -> Opcode.AssertEq
      [] OTHER -> -1

\* the switch on apUpdateNum as it would be if 3, the value of ApUpdate.Add2,
\* were taken from the word
decodeApUpdateThreeIsAdd2(apUpdateNum, opcode) ==
    CASE apUpdateNum = 0 ->
            IF opcode = Opcode.Call THEN ApUpdate.Add2 ELSE ApUpdate.Regular
      [] apUpdateNum = 1 -> ApUpdate.Add
      [] apUpdateNum = 2 -> ApUpdate.Add1
      [] apUpdateNum = 3 -> ApUpdate.Add2
      [] OTHER -> -1

\* the switch on apUpdateNum
decodeApUpdate(apUpdateNum, opcode) ==
    CASE apUpdateNum = 0 ->
            IF opcode = Opcode.Call THEN ApUpdate.Add2 ELSE ApUpdate.Regular
      [] apUpdateNum = 1 -> ApUpdate.Add
      [] apUpdateNum = 2 -> ApUpdate.Add1
      [] OTHER -> -1

\* the switch on opcode that sets fpUpdate
decodeFpUpdate(opcode) ==
    CASE opcode = Opcode.Call -> FpUpdate.ApPlus2
      [] opcode = Opcode.Ret -> FpUpdate.Dst
      [] OTHER -> FpUpdate.Regular

\* Instruction.decodeInstruction: {value, error}
decodeInstruction(encoded) ==
    IF highBit(encoded) THEN DecodeError("HighBitSetError")
    ELSE
    LET dstOff == fromBiased(mask(encoded))
        shifted1 == shift(encoded)
        op0Off == fromBiased(mask(shifted1))
        shifted2 == shift(shifted1)
        op1Off == fromBiased(mask(shifted2))
        flags == shift(shifted2)[1]
        dstRegNum == ShiftRight(BitAnd(flags, dstRegMask), dstRegOff)
        dstReg == IF dstRegNum = 0 THEN RegisterFlag.AP ELSE RegisterFlag.FP
        op0RegNum == ShiftRight(BitAnd(flags, op0RegMask), op0RegOff)
        op0Reg == IF op0RegNum = 0 THEN RegisterFlag.AP ELSE RegisterFlag.FP
        op1Src == decodeOp1Src(ShiftRight(BitAnd(flags, op1SrcMask), op1SrcOff))
        pcUpdate == decodePcUpdate(ShiftRight(BitAnd(flags, pcUpdateMask), pcUpdateOff))
        resLogic == decodeResLogic(ShiftRight(BitAnd(flags, resLogicMask), resLogicOff),
                                   pcUpdate)
        opcode == decodeOpcode(ShiftRight(BitAnd(flags, opcodeMask), opcodeOff))
        apUpdate == decodeApUpdate(ShiftRight(BitAnd(flags, apUpdateMask), apUpdateOff),
                                   opcode)
        fpUpdate == decodeFpUpdate(opcode)
    IN  IF dstOff.error # "undefined" THEN DecodeError(dstOff.error)
        ELSE IF op0Off.error # "undefined" THEN DecodeError(op0Off.error)
        ELSE IF op1Off.error # "undefined" THEN DecodeError(op1Off.error)
        ELSE IF op1Src = -1 THEN DecodeError("InvalidOp1Src")
        ELSE IF pcUpdate = -1 THEN DecodeError("InvalidPcUpdate")
        ELSE IF resLogic = -1 THEN DecodeError("InvalidResultLogic")
        ELSE IF opcode = -1 THEN DecodeError("InvalidOpcode")
        ELSE IF apUpdate = -1 THEN DecodeError("InvalidApUpdate")
        ELSE [value |-> Instruction(dstOff.value, op0Off.value, op1Off.value, dstReg,
                                    op0Reg, op1Src, resLogic, pcUpdate, apUpdate,
                                    fpUpdate, opcode),
              error |-> "undefined"]

\* Instruction.size
size(instruction) == IF instruction.op1Src = Op1Src.Imm THEN 2 ELSE 1

\* decodeInstruction has not been called yet
NotDecoded == [value |-> undefined, error |-> "not called"]

InitDecodePart ==
    /\ encodedInstruction = <<0, 0, 0, 0>>
    /\ decoded = NotDecoded

(***************************************************************************)
(* VirtualMachine (src/unnamed/part_000)                                   *)
(*                                                                         *)
(* The machine holds its words as JavaScript objects, and opcodeAssertion  *)
(* compares some of them with !==, so a word of the machine is modelled as *)
(* an object: the word and the identity (id) of the object holding it.     *)
(* Two objects with the same word and different ids are equal by value and *)
(* distinct for === and !==.                                               *)
(*                                                                         *)
(* MemorySegmentManager, its memory, the Relocatable classes, the word     *)
(* arithmetic returning { value, error } and the RunContext methods        *)
(* computeAddress, computeOp1Address and getFp are not among the sources;  *)
(* they follow spec.md sections 3, 4.2, 4.3, 4.4 and 4.6.                  *)
(***************************************************************************)
Obj(word, id) == [word |-> word, id |-> id]

\* a === b on two operands, each an object or undefined
StrictEquals(a, b) ==
    IF a = undefined \/ b = undefined THEN a = b ELSE a.id = b.id

\* { value, error: undefined }
Value(value) == [value |-> value, error |-> "undefined"]

\* { value: undefined, error }
Error(error) == [value |-> undefined, error |-> error]

\* The identity of an object names the place that created it: the register it
\* was built for, the cell the loader built it for, or the call of a word
\* operation that returned it.
RegisterId(register) == <<register, 0, 0>>

LoaderId(address) == <<"loader", address.segmentIndex, address.offset>>

NewId(call, n) == <<"new", call, n>>

\* RunContext.default(): pc at the start of the program segment, ap and fp at
\* the start of the execution segment
RunContextDefault ==
    [pc |-> Obj(RelocatableWord(0, 0), RegisterId("pc")),
     ap |-> Obj(RelocatableWord(1, 0), RegisterId("ap")),
     fp |-> Obj(RelocatableWord(1, 0), RegisterId("fp"))]

\* RunContext.getPc
getPc == runContext.pc

\* RunContext.getFp
getFp == runContext.fp

\* Relocatable.add(n), n an unsigned integer
relocatableAdd(this, n) ==
    Value(RelocatableWord(this.segmentIndex, this.offset + n))

\* Relocatable.sub(n), n an unsigned integer
relocatableSub(this, n) ==
    IF this.offset < n THEN Error("OffsetUnderflow")
    ELSE Value(RelocatableWord(this.segmentIndex, this.offset - n))

\* RunContext.computeAddress: ap or fp, plus or minus |offset|
computeAddress(register, offset) ==
    LET offsetIsNegative == IF offset < 0 THEN 1 ELSE 0
        off == (0 - 1) * offsetIsNegative * offset + (1 - offsetIsNegative) * offset
        base == IF register = RegisterFlag.AP THEN runContext.ap.word
                ELSE runContext.fp.word
    IN  IF offsetIsNegative = 1 THEN relocatableSub(base, off)
        ELSE relocatableAdd(base, off)

\* base plus a signed offset
addSigned(base, offset) ==
    IF offset < 0 THEN relocatableSub(base, 0 - offset)
    ELSE relocatableAdd(base, offset)

\* RunContext.computeOp1Address
computeOp1Address(op1Src, op1Offset, op0) ==
    IF op1Src = Op1Src.Op0
    THEN IF op0 = undefined THEN Error("TypeMismatch")
         ELSE IF op0.word.kind # "Relocatable" THEN Error("TypeMismatch")
         ELSE addSigned(op0.word, op1Offset)
    ELSE IF op1Src = Op1Src.Imm
    THEN IF op1Offset = 1 THEN relocatableAdd(runContext.pc.word, 1)
         ELSE Error("Op1ImmOffsetError")
    ELSE IF op1Src = Op1Src.FP THEN addSigned(runContext.fp.word, op1Offset)
    ELSE addSigned(runContext.ap.word, op1Offset)

\* b to the power e, modulo PRIME
RECURSIVE Pow(_, _)
Pow(b, e) == IF e = 0 THEN 1 % PRIME ELSE (b * Pow(b, e - 1)) % PRIME

\* this.add(other) on a word: Field + Field and Relocatable + Field
wordAdd(this, other) ==
    IF other = undefined THEN Error("TypeMismatch")
    ELSE IF other.kind # "Felt" THEN Error("TypeMismatch")
    ELSE IF this.kind = "Felt" THEN Value(FeltWord(add(this.inner, other.inner).inner))
    ELSE relocatableAdd(this, other.inner)

\* this.sub(other) on a word: Field - Field, Relocatable - Field and
\* Relocatable - Relocatable of one segment
wordSub(this, other) ==
    IF other = undefined THEN Error("TypeMismatch")
    ELSE IF this.kind = "Felt"
    THEN IF other.kind # "Felt" THEN Error("TypeMismatch")
         ELSE Value(FeltWord(sub(this.inner, other.inner).inner))
    ELSE IF other.kind = "Felt" THEN relocatableSub(this, other.inner)
    ELSE IF this.segmentIndex # other.segmentIndex THEN Error("SegmentMismatch")
    ELSE IF this.offset < other.offset THEN Error("OffsetUnderflow")
    ELSE Value(FeltWord((this.offset - other.offset) % PRIME))

\* this.mul(other) on a word: Field * Field only
wordMul(this, other) ==
    IF other = undefined THEN Error("TypeMismatch")
    ELSE IF this.kind # "Felt" \/ other.kind # "Felt" THEN Error("TypeMismatch")
    ELSE Value(FeltWord((this.inner * other.inner) % PRIME))

\* this.div(other) on a word: Field / Field only, other not zero
wordDiv(this, other) ==
    IF other = undefined THEN Error("TypeMismatch")
    ELSE IF this.kind # "Felt" \/ other.kind # "Felt" THEN Error("TypeMismatch")
    ELSE IF other.inner = 0 THEN Error("DivisionByZero")
    ELSE Value(FeltWord((this.inner * Pow(other.inner, PRIME - 2)) % PRIME))

\* the object a word operation returns: its value in a new object
NewObj(result, id) ==
    IF result.error # "undefined" THEN result ELSE Value(Obj(result.value, id))

\* memory.get(address) of the machine's memory: the object stored, or undefined
memoryGet(mem, address) ==
    IF address \in DOMAIN mem THEN mem[address] ELSE undefined

\* memory.insert(address, value) of the machine's memory: the error it returns
\* and the memory it leaves.  A cell that holds an equal word accepts the write.
memoryInsert(mem, address, value) ==
    IF address.segmentIndex >= vmNumSegments
    THEN [error |-> "SegmentOutOfBounds", memory |-> mem]
    ELSE IF address \in DOMAIN mem
    THEN IF mem[address].word = value.word
         THEN [error |-> "undefined", memory |-> mem]
         ELSE [error |-> "WriteOnce", memory |-> mem]
    ELSE [error |-> "undefined",
          memory |-> [a \in DOMAIN mem \cup {address} |->
                         IF a = address THEN value ELSE mem[a]]]

\* Felt.toUint64, on an inner value written as five 16-bit limbs, least
\* significant first: the low four limbs when the value fits in 64 bits
toUint64(inner) ==
    IF inner[5] # 0 THEN Error("Uint64OutOfRange")
    ELSE Value(<<inner[1], inner[2], inner[3], inner[4]>>)

\* what a method call on undefined throws
TypeError == "TypeError: Cannot read properties of undefined"

\* the pair [undefined, undefined] of the deductions
Nothing == <<undefined, undefined>>

\* VirtualMachine.deduceOp0; id is the identity of the object it creates
deduceOp0(instruction, dst, op1, id) ==
    IF instruction.opcode = Opcode.Call
    THEN LET r == NewObj(relocatableAdd(getPc.word, size(instruction)), id)
         IN  IF r.error # "undefined" THEN Error(r.error)
             ELSE Value(<<r.value, undefined>>)
    ELSE IF instruction.opcode = Opcode.AssertEq
    THEN IF instruction.resLogic = ResLogic.Add /\ dst # undefined /\ op1 # undefined
         THEN LET r == NewObj(wordSub(dst.word, op1.word), id)
              IN  IF r.error # "undefined" THEN Error(r.error)
                  ELSE Value(<<r.value, dst>>)
         \* case Add has no break: when its test fails it runs on into case Mul
         ELSE IF /\ instruction.resLogic \in {ResLogic.Add, ResLogic.Mul}
                 /\ dst # undefined /\ op1 # undefined
         THEN LET r == NewObj(wordDiv(dst.word, op1.word), id)
              IN  IF r.error # "undefined" THEN Value(Nothing)
                  ELSE Value(<<r.value, dst>>)
         ELSE Value(Nothing)
    ELSE Value(Nothing)

\* VirtualMachine.deduceOp1
deduceOp1(instruction, dst, op0, id) ==
    IF instruction.opcode = Opcode.AssertEq
    THEN IF instruction.resLogic = ResLogic.Op1 THEN Value(<<dst, dst>>)
         ELSE IF instruction.resLogic = ResLogic.Add
         THEN IF dst # undefined /\ op0 # undefined
              THEN LET r == NewObj(wordSub(dst.word, op0.word), id)
                   IN  IF r.error # "undefined" THEN Error(r.error)
                       ELSE Value(<<r.value, dst>>)
              ELSE Value(Nothing)
         ELSE IF instruction.resLogic = ResLogic.Mul
         THEN IF dst # undefined /\ op0 # undefined
              THEN LET r == NewObj(wordDiv(dst.word, op0.word), id)
                   IN  IF r.error # "undefined" THEN Value(Nothing)
                       ELSE Value(<<r.value, dst>>)
              ELSE Value(Nothing)
         ELSE Value(Nothing)
    ELSE Value(Nothing)

\* the word of an operand handed to a word operation
WordOf(operand) == IF operand = undefined THEN undefined ELSE operand.word

\* VirtualMachine.computeRes; op0.add and op0.mul throw when op0 is undefined
computeRes(instruction, op0, op1, id) ==
    IF instruction.resLogic = ResLogic.Op1 THEN Value(op1)
    ELSE IF instruction.resLogic = ResLogic.Add
    THEN IF op0 = undefined THEN Error(TypeError)
         ELSE NewObj(wordAdd(op0.word, WordOf(op1)), id)
    ELSE IF instruction.resLogic = ResLogic.Mul
    THEN IF op0 = undefined THEN Error(TypeError)
         ELSE NewObj(wordMul(op0.word, WordOf(op1)), id)
    ELSE Value(undefined)

\* VirtualMachine.deduceDst
deduceDst(instruction, res) ==
    IF instruction.opcode = Opcode.AssertEq THEN Value(res)
    ELSE IF instruction.opcode = Opcode.Call THEN Value(getFp)
    ELSE Value(undefined)

\* no insert was called
NotInserted(mem) == [error |-> "not called", memory |-> mem]

\* what computeOperands returns or throws, the memory it leaves, the results
\* of its inserts, which it drops, and whether it called computeRes
Returned(value, error, mem, inserts, calledComputeRes) ==
    [value |-> value, error |-> error, memory |-> mem, inserts |-> inserts,
     calledComputeRes |-> calledComputeRes]

\* VirtualMachine.computeOperands; call numbers the calls made on the machine
computeOperands(instruction, call) ==
    LET dstR == computeAddress(instruction.dstReg, instruction.offDst)
        op0R == computeAddress(instruction.op0Reg, instruction.offOp0)
        dstAddr == dstR.value
        op0Addr == op0R.value
        dst0 == memoryGet(memory, dstAddr)
        op0 == memoryGet(memory, op0Addr)
        op1R == computeOp1Address(instruction.op1Src, instruction.offOp1, op0)
        op1Addr == op1R.value
        op1 == memoryGet(memory, op1Addr)
        \* if (op0 === undefined)
        d0 == IF op0 = undefined THEN deduceOp0(instruction, dst0, op1, NewId(call, 0))
              ELSE Value(Nothing)
        ins0 == IF op0 = undefined /\ d0.value[1] # undefined
                THEN memoryInsert(memory, op0Addr, d0.value[1])
                ELSE NotInserted(memory)
        res0 == d0.value[2]
        \* if (op1 === undefined)
        d1 == IF op1 = undefined THEN deduceOp1(instruction, dst0, op0, NewId(call, 1))
              ELSE Value(Nothing)
        ins1 == IF op1 = undefined /\ d1.value[1] # undefined
                THEN memoryInsert(ins0.memory, op1Addr, d1.value[1])
                ELSE NotInserted(ins0.memory)
        res1 == IF op1 = undefined /\ res0 = undefined THEN d1.value[2] ELSE res0
        \* if (res === undefined)
        cr == IF res1 = undefined THEN computeRes(instruction, op0, op1, NewId(call, 2))
              ELSE Value(res1)
        res == cr.value
        \* if (dst === undefined)
        dd == IF dst0 = undefined THEN deduceDst(instruction, res) ELSE Value(dst0)
        ins2 == IF dst0 = undefined /\ dd.value # undefined
                THEN memoryInsert(ins1.memory, dstAddr, dd.value)
                ELSE NotInserted(ins1.memory)
        dst == dd.value
        none == [op0 |-> "not called", op1 |-> "not called", dst |-> "not called"]
    IN  IF dstR.error # "undefined"
        THEN Returned(undefined, dstR.error, memory, none, FALSE)
        ELSE IF op0R.error # "undefined"
        THEN Returned(undefined, op0R.error, memory, none, FALSE)
        ELSE IF op1R.error # "undefined"
        THEN Returned(undefined, op1R.error, memory, none, FALSE)
        ELSE IF d0.error # "undefined"
        THEN Returned(undefined, d0.error, memory, none, FALSE)
        ELSE IF d1.error # "undefined"
        THEN Returned(undefined, d1.error, ins0.memory,
                      [none EXCEPT !.op0 = ins0.error], FALSE)
        ELSE IF cr.error # "undefined"
        THEN Returned(undefined, cr.error, ins1.memory,
                      [none EXCEPT !.op0 = ins0.error, !.op1 = ins1.error],
                      res1 = undefined)
        ELSE Returned([op0 |-> op0, op1 |-> op1, res |-> res, dst |-> dst],
                      "undefined", ins2.memory,
                      [op0 |-> ins0.error, op1 |-> ins1.error, dst |-> ins2.error],
                      res1 = undefined)

\* Relocatable.eq(other): the same segment and the same offset
relocatableEq(this, other) ==
    /\ other.kind = "Relocatable"
    /\ other.segmentIndex = this.segmentIndex
    /\ other.offset = this.offset

\* VirtualMachine.opcodeAssertion
opcodeAssertion(instruction, operands) ==
    IF instruction.opcode = Opcode.AssertEq
    THEN IF operands.res = undefined THEN Error("UnconstrainedResError")
         ELSE IF ~StrictEquals(operands.dst, operands.res)
         THEN Error("DiffAssertValuesError")
         ELSE Value(undefined)
    ELSE IF instruction.opcode = Opcode.Call
    THEN LET returnPc == relocatableAdd(getPc.word, size(instruction))
         IN  IF returnPc.error # "undefined" THEN Error(returnPc.error)
             ELSE IF operands.op0 = undefined THEN Error("InvalidOperand0")
             ELSE IF ~relocatableEq(returnPc.value, operands.op0.word)
             THEN Error("InvalidOperand0")
             ELSE IF ~StrictEquals(getFp, operands.dst) THEN Error("InvalidDstOperand")
             ELSE Value(undefined)
    ELSE Value(undefined)

\* VirtualMachine.step: what it throws.  It returns nothing and assigns
\* nothing; the instruction it decodes is not used.
step ==
    LET maybeEncodedInstruction == memoryGet(memory, getPc.word)
    IN  IF maybeEncodedInstruction = undefined THEN "EndOfInstructionsError"
        ELSE IF maybeEncodedInstruction.word.kind # "Felt" THEN "InstructionError"
        ELSE LET r == toUint64(maybeEncodedInstruction.word.inner)
                 instruction == decodeInstruction(r.value)
             IN  IF r.error # "undefined" THEN r.error
                 ELSE "TODO: Not Implemented"

\* no call has been made on the machine
NoCall ==
    [op |-> "none", calls |-> 0, instruction |-> undefined, args |-> undefined,
     value |-> undefined,
     error |-> "undefined", inserts |-> undefined, calledComputeRes |-> FALSE]

\* new VirtualMachine(): no segment, an empty memory, the default registers
InitVMPart ==
    /\ memory = [a \in {} |-> undefined]
    /\ vmNumSegments = 0
    /\ runContext = RunContextDefault
    /\ vmCall = NoCall

NoOp == [op |-> "none", address |-> 0, word |-> undefined, result |-> Ok(undefined)]

(***************************************************************************)
(* Actions of the memory specification                                     *)
(***************************************************************************)
\* a caller builds a Relocatable object: new Relocatable(segmentIndex, offset)
NewRelocatable(s, o) ==
    /\ Len(relocs) < MaxRelocs
    /\ relocs' = Append(relocs, [segmentIndex |-> s, offset |-> o])
    /\ UNCHANGED <<data, numSegments, lastOp, felts, feltOp, encodedInstruction, decoded>>
    /\ UNCHANGED vmVars

IncrementNumSegments ==
    /\ numSegments < MaxSegments
    /\ numSegments' = numSegments + 1
    /\ lastOp' = [op |-> "incrementNumSegments", address |-> 0, word |-> undefined,
                  result |-> Ok(undefined)]
    /\ UNCHANGED <<relocs, data, felts, feltOp, encodedInstruction, decoded>>
    /\ UNCHANGED vmVars

Insert(address, value) ==
    LET r == insert(address, value)
    IN  /\ data' = r.data
        /\ lastOp' = [op |-> "insert", address |-> address, word |-> value,
                      result |-> r.result]
        /\ UNCHANGED <<relocs, numSegments, felts, feltOp, encodedInstruction, decoded>>
        /\ UNCHANGED vmVars

Get(address) ==
    /\ lastOp' = [op |-> "get", address |-> address, word |-> undefined,
                  result |-> get(address)]
    /\ UNCHANGED <<relocs, data, numSegments, felts, feltOp, encodedInstruction, decoded>>
    /\ UNCHANGED vmVars

memoryVars == <<relocs, data, numSegments, lastOp>>

InitMemoryPart ==
    /\ relocs = <<>>
    /\ data = <<>>
    /\ numSegments = 0
    /\ lastOp = NoOp

\* new Memory(): an empty map and no segment; no Relocatable built yet
Init ==
    /\ InitMemoryPart
    /\ InitFeltPart
    /\ InitDecodePart
    /\ InitVMPart

Next ==
    \/ \E s \in 0..MaxSegments, o \in 0..MaxOffset : NewRelocatable(s, o)
    \/ IncrementNumSegments
    \/ \E a \in Addresses, w \in Words : Insert(a, w)
    \/ \E a \in Addresses : Get(a)

Spec == Init /\ [][Next]_vars

(***************************************************************************)
(* Actions of the Felt specification                                       *)
(***************************************************************************)
\* the objects that exist after a call: the ones before and the one it returned
FeltCall(op, this, other, result) ==
    /\ feltOp' = [op |-> op, this |-> this, other |-> other, result |-> result]
    /\ felts' = IF result.threw THEN felts ELSE felts \cup {result.inner}
    /\ UNCHANGED <<memoryVars, encodedInstruction, decoded>>
    /\ UNCHANGED vmVars

NewFelt(_inner) == FeltCall("new", _inner, 0, Felt(_inner))

FeltAdd(this, other) == FeltCall("add", this, other, add(this, other))

FeltSub(this, other) == FeltCall("sub", this, other, sub(this, other))

InitFelt ==
    /\ InitMemoryPart
    /\ InitFeltPart
    /\ InitDecodePart
    /\ InitVMPart

NextFelt ==
    \/ \E i \in (0 - MaxOutside)..(PRIME + MaxOutside) : NewFelt(i)
    \/ \E a \in felts, b \in felts : FeltAdd(a, b)
    \/ \E a \in felts, b \in felts : FeltSub(a, b)

SpecFelt == InitFelt /\ [][NextFelt]_vars

(***************************************************************************)
(* The decoder specification: decodeInstruction applied to an encoded word *)
(***************************************************************************)
\* The biased values tried for each of the three offsets: the most negative
\* offset, offset 0 and the most positive one.
OffsetLimbs == {0, 32768, 65535}

\* The flag limbs tried: every 15-bit flag word with bit 63 of the instruction
\* clear, and the same words with bit 63 set for the lowest and highest flags.
FlagLimbs == 0..32767 \cup {32768, 65535}

DecodeInstruction ==
    /\ decoded = NotDecoded
    /\ decoded' = decodeInstruction(encodedInstruction)
    /\ UNCHANGED <<memoryVars, felts, feltOp, encodedInstruction>>
    /\ UNCHANGED vmVars

InitDecode ==
    /\ InitMemoryPart
    /\ InitFeltPart
    /\ \E dst \in OffsetLimbs, op0 \in OffsetLimbs, op1 \in OffsetLimbs,
          flags \in FlagLimbs :
            encodedInstruction = <<dst, op0, op1, flags>>
    /\ decoded = NotDecoded
    /\ InitVMPart

NextDecode == DecodeInstruction

SpecDecode == InitDecode /\ [][NextDecode]_vars

(***************************************************************************)
(* The machine's specifications.  A program is loaded into the memory of a *)
(* new machine, then calls are made on the machine.                        *)
(***************************************************************************)
\* how many segments the loader adds
MaxVmSegments == 2

\* how many calls that create objects are made on one machine
MaxCalls == 1

\* the cells the loader fills: the instruction at pc, and the first two
\* cells of the execution segment
StepCells == {RelocatableWord(0, 0), RelocatableWord(1, 0), RelocatableWord(1, 1)}

\* The words the loader stores for step, a Felt's inner value written as five
\* 16-bit limbs, least significant first:
\*   assert [fp + 0] = [ap + 1], an AssertEq instruction with resLogic Op1,
\*     pcUpdate Regular and apUpdate Regular;
\*   the same word with bit 63 set;
\*   a word whose op1Src bits are 3, which no Op1Src has;
\*   the field element 7;
\*   a field element that does not fit in 64 bits;
\*   a pointer.
StepWords ==
    {FeltWord(<<32768, 32768, 32769, 16403, 0>>),
     FeltWord(<<32768, 32768, 32769, 49171, 0>>),
     FeltWord(<<32768, 32768, 32768, 12, 0>>),
     FeltWord(<<7, 0, 0, 0, 0>>),
     FeltWord(<<0, 0, 0, 0, 1>>),
     RelocatableWord(1, 0)}

\* segments.addSegment()
AddSegment ==
    /\ vmNumSegments < MaxVmSegments
    /\ vmNumSegments' = vmNumSegments + 1
    /\ UNCHANGED <<memory, runContext, vmCall>>
    /\ UNCHANGED <<memoryVars, felts, feltOp, encodedInstruction, decoded>>

\* the loader stores a word, in a new object, before the machine runs
Load(address, word) ==
    /\ vmCall.op = "none"
    /\ LET r == memoryInsert(memory, address, Obj(word, LoaderId(address)))
       IN  /\ r.error = "undefined"
           /\ memory' = r.memory
    /\ UNCHANGED <<vmNumSegments, runContext, vmCall>>
    /\ UNCHANGED <<memoryVars, felts, feltOp, encodedInstruction, decoded>>

\* vm.step()
Step ==
    /\ vmCall' = [NoCall EXCEPT !.op = "step", !.error = step]
    /\ UNCHANGED <<memory, vmNumSegments, runContext>>
    /\ UNCHANGED <<memoryVars, felts, feltOp, encodedInstruction, decoded>>

InitStep ==
    /\ InitMemoryPart
    /\ InitFeltPart
    /\ InitDecodePart
    /\ InitVMPart

NextStep ==
    \/ AddSegment
    \/ \E address \in StepCells, word \in StepWords : Load(address, word)
    \/ Step

SpecStep == InitStep /\ [][NextStep]_vars

\* The cells the loader fills for computeOperands: the cell after the
\* instruction and the first two cells of the execution segment
VMCells == {RelocatableWord(0, 1), RelocatableWord(1, 0), RelocatableWord(1, 1)}

\* The words it stores there: the field elements 0 and 2, the address after a
\* one-word instruction at pc, and the address fp holds
VMWords ==
    {FeltWord(0), FeltWord(2), RelocatableWord(0, 1), RelocatableWord(1, 0)}

\* The instructions handed to computeOperands: dst is taken from fp and op0
\* from ap, every offset is -1, 0 or 1 (0 or 1 for op0 and op1), and pcUpdate,
\* apUpdate and fpUpdate are what decodeInstruction gives with the other fields
Instructions ==
    {Instruction(offDst, offOp0, offOp1, RegisterFlag.FP, RegisterFlag.AP,
                 op1Src, resLogic,
                 IF resLogic = ResLogic.Unconstrained THEN PcUpdate.Jnz
                 ELSE PcUpdate.Regular,
                 decodeApUpdate(0, opcode), decodeFpUpdate(opcode), opcode) :
        offDst \in {-1, 0, 1}, offOp0 \in {0, 1}, offOp1 \in {0, 1},
        op1Src \in {Op1Src.Op0, Op1Src.Imm, Op1Src.FP, Op1Src.AP},
        resLogic \in {ResLogic.Op1, ResLogic.Add, ResLogic.Mul,
                      ResLogic.Unconstrained},
        opcode \in {Opcode.NoOp, Opcode.Call, Opcode.AssertEq}}

\* The instructions handed to deduceOp0 and deduceOp1, which read the opcode,
\* the result logic and the size only
DeduceInstructions ==
    {i \in Instructions : i.offDst = 0 /\ i.offOp0 = 0 /\ i.offOp1 = 1
                          /\ i.op1Src \in {Op1Src.Imm, Op1Src.AP}}

\* the operands a caller can hand over: an object the memory holds, or undefined
Operands == {memory[a] : a \in DOMAIN memory} \cup {undefined}

\* vm.computeOperands(instruction)
ComputeOperands(instruction) ==
    /\ vmCall.calls < MaxCalls
    /\ LET r == computeOperands(instruction, vmCall.calls)
       IN  /\ memory' = r.memory
           /\ vmCall' = [op |-> "computeOperands", calls |-> vmCall.calls + 1,
                         instruction |-> instruction, args |-> undefined,
                         value |-> r.value, error |-> r.error,
                         inserts |-> r.inserts,
                         calledComputeRes |-> r.calledComputeRes]
    /\ UNCHANGED <<vmNumSegments, runContext>>
    /\ UNCHANGED <<memoryVars, felts, feltOp, encodedInstruction, decoded>>

\* a call of deduceOp0 or deduceOp1
Deduce(op, instruction, dst, other, r) ==
    /\ vmCall.calls < MaxCalls
    /\ vmCall' = [NoCall EXCEPT !.op = op, !.calls = vmCall.calls + 1,
                                !.instruction = instruction,
                                !.args = <<dst, other>>,
                                !.value = r.value, !.error = r.error]
    /\ UNCHANGED <<memory, vmNumSegments, runContext>>
    /\ UNCHANGED <<memoryVars, felts, feltOp, encodedInstruction, decoded>>

\* vm.deduceOp0(instruction, dst, op1)
DeduceOp0(instruction, dst, op1) ==
    Deduce("deduceOp0", instruction, dst, op1,
           deduceOp0(instruction, dst, op1, NewId(vmCall.calls, 0)))

\* vm.deduceOp1(instruction, dst, op0)
DeduceOp1(instruction, dst, op0) ==
    Deduce("deduceOp1", instruction, dst, op0,
           deduceOp1(instruction, dst, op0, NewId(vmCall.calls, 1)))

\* vm.opcodeAssertion(instruction, operands), on the operands that
\* computeOperands returned for the instruction
OpcodeAssertion ==
    /\ vmCall.op = "computeOperands"
    /\ vmCall.error = "undefined"
    /\ vmCall' = [vmCall EXCEPT !.op = "opcodeAssertion",
                                !.error = opcodeAssertion(vmCall.instruction,
                                                          vmCall.value).error]
    /\ UNCHANGED <<memory, vmNumSegments, runContext>>
    /\ UNCHANGED <<memoryVars, felts, feltOp, encodedInstruction, decoded>>

InitVM ==
    /\ InitMemoryPart
    /\ InitFeltPart
    /\ InitDecodePart
    /\ InitVMPart

NextVM ==
    \/ AddSegment
    \/ \E address \in VMCells, word \in VMWords : Load(address, word)
    \/ \E instruction \in Instructions : ComputeOperands(instruction)
    \/ \E instruction \in DeduceInstructions, dst \in Operands, op1 \in Operands :
           DeduceOp0(instruction, dst, op1)
    \/ \E instruction \in DeduceInstructions, dst \in Operands, op0 \in Operands :
           DeduceOp1(instruction, dst, op0)
    \/ OpcodeAssertion

SpecVM == InitVM /\ [][NextVM]_vars

(***************************************************************************)
(* Properties of Memory (checked under Spec)                               *)
(***************************************************************************)
\* the (segmentIndex, offset) an address object holds
SegOff(address) == <<relocs[address].segmentIndex, relocs[address].offset>>

\* The words that inserts have stored at the (segmentIndex, offset) of lastOp's
\* address, through whatever objects: insert alone adds to the map, only when
\* it returns Ok, and nothing removes from it.
WrittenAtLast ==
    {data[a] : a \in {b \in DOMAIN data : SegOff(b) = SegOff(lastOp.address)}}

\* C1 (as claimed): write-once with equality.  Once insert(A, W) has succeeded,
\* a later insert(A, W') at an address whose segment is allocated succeeds if
\* and only if W' equals W; in particular inserting W again succeeds.
C1_WriteOnceWithEquality ==
    (lastOp.op = "insert" /\ relocs[lastOp.address].segmentIndex < numSegments) =>
        \A W \in WrittenAtLast : (~lastOp.result.isErr) <=> (lastOp.word = W)

C3_KeyedByAddressValue ==
    /\ (lastOp.op = "get" /\ WrittenAtLast # {}) =>
            (~lastOp.result.isErr /\ lastOp.result.value \in WrittenAtLast)
    /\ (lastOp.op = "insert" /\ WrittenAtLast \ {lastOp.word} # {}) =>
            lastOp.result = Err("WriteOnceError")
    /\ \A a1 \in DOMAIN data, a2 \in DOMAIN data :
            SegOff(a1) = SegOff(a2) => data[a1] = data[a2]

\* C4: an insert at an address whose segment index is not below numSegments
\* fails with SegmentError, and no cell is created or changed by it.
C4_InsertOutOfBoundsIsSegmentError ==
    [][\A a \in Addresses, w \in Words :
          (relocs[a].segmentIndex >= numSegments /\ Insert(a, w)) =>
              /\ lastOp'.result = Err("SegmentError")
              /\ data' = data]_vars

\* C4 witness: an insert on a memory with no segment was refused with SegmentError
C4_Witness ==
    /\ lastOp.op = "insert"
    /\ lastOp.result = Err("SegmentError")
    /\ numSegments = 0
    /\ data = <<>>

\* C5 (as claimed): get returns the word stored at the address, and returns an
\* absent value, never an error, for an address that was not written; get does
\* not change the memory.
C5_GetReturnsWordOrNone ==
    lastOp.op = "get" =>
        /\ ~lastOp.result.isErr
        /\ lastOp.result.value = MapGet(data, lastOp.address)

(***************************************************************************)
(* Properties of Felt (checked under SpecFelt)                             *)
(***************************************************************************)
\* C6 (as claimed): every Felt that exists, accepted by the constructor or
\* returned by add or sub, holds an integer in [0, PRIME): never PRIME itself.
C6_FeltsAreReduced == \A x \in felts : x >= 0 /\ x < PRIME

\* C7 (as claimed): on the Felts that exist, add is (a + b) mod PRIME and sub is
\* (a - b) mod PRIME; so x.sub(x) is 0 and adding the Felt that stands for PRIME
\* gives x back.
C7_AddSubAreModular ==
    /\ feltOp.op = "add" =>
            /\ ~feltOp.result.threw
            /\ feltOp.result.inner = (feltOp.this + feltOp.other) % PRIME
    /\ feltOp.op = "sub" =>
            /\ ~feltOp.result.threw
            /\ feltOp.result.inner = (feltOp.this - feltOp.other) % PRIME

(***************************************************************************)
(* Properties of the decoder (checked under SpecDecode).  The fields of    *)
(* the encoded word are read here by the documented layout: bits 0-47 the  *)
(* three biased offsets, bit 48 dst_reg, 49 op0_reg, 50-52 op1_src, 53-54  *)
(* res_logic, 55-57 pc_update, 58-59 ap_update, 60-62 opcode, 63 zero.     *)
(***************************************************************************)
\* the n bits from bit 48 + lo of the encoded word
FlagBits(lo, n) == (encodedInstruction[4] \div (2 ^ lo)) % (2 ^ n)

DstRegBits == FlagBits(0, 1)
Op0RegBits == FlagBits(1, 1)
Op1SrcBits == FlagBits(2, 3)
ResLogicBits == FlagBits(5, 2)
PcUpdateBits == FlagBits(7, 3)
ApUpdateBits == FlagBits(10, 2)
OpcodeBits == FlagBits(12, 3)
HighBitZero == FlagBits(15, 1) = 0

Called == decoded # NotDecoded

Succeeded == Called /\ decoded.error = "undefined"

\* the errors of the fields whose encoded value is outside the field's set
FieldErrors ==
    (IF Op1SrcBits \in {0, 1, 2, 4} THEN {} ELSE {"InvalidOp1Src"})
    \cup (IF ResLogicBits \in {0, 1, 2} THEN {} ELSE {"InvalidResultLogic"})
    \cup (IF PcUpdateBits \in {0, 1, 2, 4} THEN {} ELSE {"InvalidPcUpdate"})
    \cup (IF ApUpdateBits \in {0, 1, 2} THEN {} ELSE {"InvalidApUpdate"})
    \cup (IF OpcodeBits \in {0, 1, 2, 4} THEN {} ELSE {"InvalidOpcode"})

\* C8: for a word with bit 63 zero, decodeInstruction succeeds if and only if
\* op1_src, res_logic, pc_update, ap_update and opcode are each in their set;
\* otherwise it returns no instruction and the error of a field that is outside
\* its set.
C8_DecodeSucceedsIffFieldsValid ==
    (Called /\ HighBitZero) =>
        /\ (decoded.error = "undefined") <=> (FieldErrors = {})
        /\ (decoded.value # undefined) <=> (FieldErrors = {})
        /\ FieldErrors # {} => decoded.error \in FieldErrors

\* C8 witness: a word whose only bad field is ap_update was refused with InvalidApUpdate
C8_Witness ==
    /\ Called
    /\ HighBitZero
    /\ FieldErrors = {"InvalidApUpdate"}
    /\ decoded.error = "InvalidApUpdate"

\* C9: in a decoded instruction, an encoded res_logic of 0 is Unconstrained
\* exactly when pc_update is Jnz and Op1 otherwise, an encoded ap_update of 0 is
\* Add2 exactly when the opcode is Call and Regular otherwise, and Unconstrained
\* and Add2 arise in no other way; so no instruction has Jnz with Op1 or Call
\* with Regular.
C9_ContextDependentSelectors ==
    Succeeded =>
        LET i == decoded.value
        IN  /\ (i.pcUpdate = PcUpdate.Jnz) <=> (PcUpdateBits = 4)
            /\ (i.opcode = Opcode.Call) <=> (OpcodeBits = 1)
            /\ ResLogicBits = 0 =>
                    i.resLogic = IF PcUpdateBits = 4 THEN ResLogic.Unconstrained
                                 ELSE ResLogic.Op1
            /\ i.resLogic = ResLogic.Unconstrained =>
                    (ResLogicBits = 0 /\ PcUpdateBits = 4)
            /\ ApUpdateBits = 0 =>
                    i.apUpdate = IF OpcodeBits = 1 THEN ApUpdate.Add2
                                 ELSE ApUpdate.Regular
            /\ i.apUpdate = ApUpdate.Add2 => (ApUpdateBits = 0 /\ OpcodeBits = 1)
            /\ ~(i.pcUpdate = PcUpdate.Jnz /\ i.resLogic = ResLogic.Op1)
            /\ ~(i.opcode = Opcode.Call /\ i.apUpdate = ApUpdate.Regular)

\* C9 witness: a Call with pc_update Jnz and both selectors encoded as 0 was decoded
C9_Witness ==
    /\ Succeeded
    /\ ResLogicBits = 0
    /\ ApUpdateBits = 0
    /\ decoded.value.resLogic = ResLogic.Unconstrained
    /\ decoded.value.apUpdate = ApUpdate.Add2

\* The documented encoding of an instruction: the three offsets biased by 2^15
\* in bits 0-47, then dst_reg, op0_reg, op1_src, res_logic (Op1 and
\* Unconstrained are both 0), pc_update, ap_update (Regular and Add2 are both
\* 0) and opcode.
Encode(i) ==
    LET res == CASE i.resLogic = ResLogic.Op1 -> 0
                 [] i.resLogic = ResLogic.Unconstrained -> 0
                 [] i.resLogic = ResLogic.Add -> 1
                 [] i.resLogic = ResLogic.Mul -> 2
        pc == CASE i.pcUpdate = PcUpdate.Regular -> 0
                [] i.pcUpdate = PcUpdate.Jump -> 1
                [] i.pcUpdate = PcUpdate.JumpRel -> 2
                [] i.pcUpdate = PcUpdate.Jnz -> 4
        ap == CASE i.apUpdate = ApUpdate.Regular -> 0
                [] i.apUpdate = ApUpdate.Add2 -> 0
                [] i.apUpdate = ApUpdate.Add -> 1
                [] i.apUpdate = ApUpdate.Add1 -> 2
        op1 == CASE i.op1Src = Op1Src.Op0 -> 0
                 [] i.op1Src = Op1Src.Imm -> 1
                 [] i.op1Src = Op1Src.FP -> 2
                 [] i.op1Src = Op1Src.AP -> 4
        opc == CASE i.opcode = Opcode.NoOp -> 0
                 [] i.opcode = Opcode.Call -> 1
                 [] i.opcode = Opcode.Ret -> 2
                 [] i.opcode = Opcode.AssertEq -> 4
        dst == IF i.dstReg = RegisterFlag.AP THEN 0 ELSE 1
        op0 == IF i.op0Reg = RegisterFlag.AP THEN 0 ELSE 1
    IN  <<i.offDst + 32768, i.offOp0 + 32768, i.offOp1 + 32768,
          dst + 2 * op0 + 4 * op1 + 32 * res + 128 * pc + 1024 * ap + 4096 * opc>>

\* C10: decoding is a left inverse of the documented encoding: the instruction
\* decoded from a valid word with bit 63 zero encodes back to that word.
C10_DecodeIsLeftInverseOfEncode ==
    Succeeded => Encode(decoded.value) = encodedInstruction

\* C10 witness: an AssertEq word with the extreme offsets was decoded and encodes back
C10_Witness ==
    /\ Succeeded
    /\ decoded.value.opcode = Opcode.AssertEq
    /\ decoded.value.offDst = 32767
    /\ decoded.value.offOp0 = 0
    /\ decoded.value.offOp1 = 0 - 32768
    /\ Encode(decoded.value) = encodedInstruction

(***************************************************************************)
(* Properties of VirtualMachine.step (checked under SpecStep)              *)
(***************************************************************************)
\* the object at pc, or undefined
AtPc == memoryGet(memory, getPc.word)

\* the word at pc is a field element that fits in 64 bits
FeltAtPc ==
    /\ AtPc # undefined
    /\ AtPc.word.kind = "Felt"
    /\ toUint64(AtPc.word.inner).error = "undefined"

\* what decodeInstruction gives for the word at pc
DecodedAtPc == decodeInstruction(toUint64(AtPc.word.inner).value)

\* this transition is a call of step on a machine that has not run yet
StepCalled == vmCall.op = "none" /\ vmCall'.op = "step"

\* C11: when the word at pc is a field element whose 64-bit encoding has bit
\* 63 set, step returns the HighBitSet error, and it changes neither the
\* memory nor any of the registers pc, ap and fp.
C11_StepReturnsHighBitSet ==
    [][(StepCalled /\ FeltAtPc /\ highBit(toUint64(AtPc.word.inner).value))
          => /\ vmCall'.error = "HighBitSetError"
             /\ memory' = memory
             /\ runContext' = runContext]_vars

\* the addresses of dst and op1 of the instruction at pc, and the address of
\* the instruction after it
DstAddrAtPc == computeAddress(DecodedAtPc.value.dstReg, DecodedAtPc.value.offDst)

Op0AtPc ==
    LET op0Addr == computeAddress(DecodedAtPc.value.op0Reg, DecodedAtPc.value.offOp0)
    IN  IF op0Addr.error # "undefined" THEN undefined
        ELSE memoryGet(memory, op0Addr.value)

Op1AddrAtPc ==
    computeOp1Address(DecodedAtPc.value.op1Src, DecodedAtPc.value.offOp1, Op0AtPc)

NextPc == relocatableAdd(getPc.word, size(DecodedAtPc.value)).value

\* pc holds a valid AssertEq instruction with resLogic Op1, pcUpdate Regular and
\* apUpdate Regular, its op1 cell holds a word and its dst cell, in a segment
\* of the memory, is empty
AssertEqOp1AtPc ==
    /\ FeltAtPc
    /\ DecodedAtPc.error = "undefined"
    /\ DecodedAtPc.value.opcode = Opcode.AssertEq
    /\ DecodedAtPc.value.resLogic = ResLogic.Op1
    /\ DecodedAtPc.value.pcUpdate = PcUpdate.Regular
    /\ DecodedAtPc.value.apUpdate = ApUpdate.Regular
    /\ DstAddrAtPc.error = "undefined"
    /\ Op1AddrAtPc.error = "undefined"
    /\ memoryGet(memory, Op1AddrAtPc.value) # undefined
    /\ memoryGet(memory, DstAddrAtPc.value) = undefined
    /\ DstAddrAtPc.value.segmentIndex < vmNumSegments

\* C12: step advances one instruction: on such an AssertEq instruction it
\* succeeds, the dst cell afterwards holds op1's value, pc has advanced by the
\* size of the instruction, and ap and fp are unchanged.
C12_StepAdvancesOneInstruction ==
    [][(StepCalled /\ AssertEqOp1AtPc)
          => /\ vmCall'.error = "undefined"
             /\ DstAddrAtPc.value \in DOMAIN memory'
             /\ memory'[DstAddrAtPc.value].word = memory[Op1AddrAtPc.value].word
             /\ runContext'.pc.word = NextPc
             /\ runContext'.ap = runContext.ap
             /\ runContext'.fp = runContext.fp]_vars

(***************************************************************************)
(* Properties of operand resolution and of the opcode assertion (checked   *)
(* under SpecVM)                                                           *)
(***************************************************************************)
\* the addresses of the operands of the instruction of the last call
DstAddr == computeAddress(vmCall.instruction.dstReg, vmCall.instruction.offDst).value

Op0Addr == computeAddress(vmCall.instruction.op0Reg, vmCall.instruction.offOp0).value

Op1Addr ==
    computeOp1Address(vmCall.instruction.op1Src, vmCall.instruction.offOp1,
                      memoryGet(memory, Op0Addr)).value

\* computeOperands was called and returned operands
OperandsReturned == vmCall.op = "computeOperands" /\ vmCall.error = "undefined"

\* the operand was deduced and memory accepted it
Deduced(operand) == vmCall.inserts[operand] = "undefined"

\* the operand returned is defined and is the word the cell holds
ReturnedIsStored(operand, address) ==
    /\ operand # undefined
    /\ address \in DOMAIN memory
    /\ memory[address].word = operand.word

\* C13: operand resolution returns what memory holds: when computeOperands
\* succeeds after deducing op0, op1 or dst, the operand it returns is defined
\* and equal to the word stored at its address after the call; for a Call
\* whose op0 cell was empty the returned op0 is pc + size(instr).
C13_ReturnedOperandsAreStored ==
    OperandsReturned =>
        /\ Deduced("op0") =>
              /\ ReturnedIsStored(vmCall.value.op0, Op0Addr)
              /\ vmCall.instruction.opcode = Opcode.Call =>
                    vmCall.value.op0.word =
                        relocatableAdd(getPc.word, size(vmCall.instruction)).value
        /\ Deduced("op1") => ReturnedIsStored(vmCall.value.op1, Op1Addr)
        /\ Deduced("dst") => ReturnedIsStored(vmCall.value.dst, DstAddr)

\* computeOperands reached the point where res is computed, res being still
\* undetermined, and the cell of op0 or of op1 is empty after the deductions
ResUndeterminedOperandAbsent ==
    /\ vmCall.op = "computeOperands"
    /\ vmCall.calledComputeRes
    /\ \/ Op0Addr \notin DOMAIN memory
       \/ Op1Addr \notin DOMAIN memory

\* C14: when res is undetermined and op0 or op1 is still absent after the
\* deductions, operand resolution does no arithmetic on the missing operand
\* and leaves res absent, whatever the result logic.
C14_NoResFromMissingOperand ==
    ResUndeterminedOperandAbsent =>
        /\ vmCall.error = "undefined"
        /\ vmCall.value.res = undefined

\* memory rejected the write
Rejected(error) == error \in {"WriteOnce", "SegmentOutOfBounds"}

\* the error of the first insert of the cascade that memory rejected
FirstRejected ==
    IF Rejected(vmCall.inserts.op0) THEN vmCall.inserts.op0
    ELSE IF Rejected(vmCall.inserts.op1) THEN vmCall.inserts.op1
    ELSE IF Rejected(vmCall.inserts.dst) THEN vmCall.inserts.dst
    ELSE "none"

\* C15: a failed memory write during the deduction cascade is surfaced: when
\* memory rejects the insert of a deduced op0, op1 or dst, operand resolution
\* fails with that error.
C15_RejectedInsertIsSurfaced ==
    (vmCall.op = "computeOperands" /\ FirstRejected # "none")
        => vmCall.error = FirstRejected

\* deduceOp0 or deduceOp1 was called with AssertEq, Mul and both inputs defined
DeducedByDivision ==
    /\ vmCall.op \in {"deduceOp0", "deduceOp1"}
    /\ vmCall.instruction.opcode = Opcode.AssertEq
    /\ vmCall.instruction.resLogic = ResLogic.Mul
    /\ vmCall.args[1] # undefined
    /\ vmCall.args[2] # undefined

\* C16: division by zero is the only error swallowed during deduction: a
\* zero divisor yields (None, None) without error, a non-zero field divisor
\* yields (dst / divisor, dst), and any other failure of the division is
\* returned as an error.
C16_OnlyDivisionByZeroSwallowed ==
    DeducedByDivision =>
        LET dst == vmCall.args[1]
            quotient == wordDiv(dst.word, vmCall.args[2].word)
        IN  IF quotient.error = "DivisionByZero"
            THEN vmCall.error = "undefined" /\ vmCall.value = Nothing
            ELSE IF quotient.error = "undefined"
            THEN /\ vmCall.error = "undefined"
                 /\ vmCall.value[1].word = quotient.value
                 /\ vmCall.value[2].word = dst.word
            ELSE vmCall.error = quotient.error

\* opcodeAssertion was called for an instruction of the opcode
Asserted(opcode) ==
    vmCall.op = "opcodeAssertion" /\ vmCall.instruction.opcode = opcode

\* two operands are equal by value
SameWord(a, b) == a # undefined /\ b # undefined /\ a.word = b.word

\* C17: the AssertEq opcode assertion compares by value: it fails with
\* UnconstrainedRes when res is absent, with DiffAssertValues exactly when
\* dst and res are different words, and succeeds when they are equal by
\* value, even as distinct objects.
C17_AssertEqComparesByValue ==
    Asserted(Opcode.AssertEq) =>
        IF vmCall.value.res = undefined
        THEN vmCall.error = "UnconstrainedResError"
        ELSE IF SameWord(vmCall.value.dst, vmCall.value.res)
        THEN vmCall.error = "undefined"
        ELSE vmCall.error = "DiffAssertValuesError"

\* C18: the Call opcode assertion succeeds exactly when op0 is defined and
\* equals pc + size(instr) and dst equals fp by value: a missing or different
\* op0 gives InvalidOp0ForCall, a dst that differs in value from fp gives
\* InvalidDstForCall, and a dst read from memory with fp's segment and offset
\* is accepted.
C18_CallComparesByValue ==
    Asserted(Opcode.Call) =>
        LET returnPc == Obj(relocatableAdd(getPc.word, size(vmCall.instruction)).value,
                            NewId(vmCall.calls, 0))
        IN  IF ~SameWord(vmCall.value.op0, returnPc)
            THEN vmCall.error = "InvalidOperand0"
            ELSE IF ~SameWord(vmCall.value.dst, getFp)
            THEN vmCall.error = "InvalidDstOperand"
            ELSE vmCall.error = "undefined"

====
